---- MODULE Spec2Model ----
(***************************************************************************)
(* Model of src/main.py: the trend-gated mean-reversion position           *)
(* generator getMyPosition with its cross-call globals currentPos,         *)
(* position_entry_day and global_day_counter.                              *)
(*                                                                         *)
(* Numbers.  Prices are integers.  Log returns are kept in units of 1e-3   *)
(* (LogReturn), the volatility as V = (LOOKBACK_DAYS * std)^2 in those     *)
(* units, the z-score as the pair (D, V) with z = D / sqrt(V), and the RSI *)
(* as a fraction num/den.  Every comparison of the source is rewritten as  *)
(* an integer inequality between such quantities; all intermediate values  *)
(* stay below 2^31.  The integer model was compared with the floating      *)
(* point computation of the source on every price history the model can    *)
(* generate: branch taken, returned position and entry day agree.          *)
(***************************************************************************)
EXTENDS Integers, Sequences, FiniteSets, TLC

\* ---------------------------------------------------------------- bounds
NumInst == 2      \* instruments in the model (nInst = 50 in the source)
MaxDay == 115     \* longest price history of the daily specification
MaxCalls == 4     \* number of calls of the unconstrained specification
MaxDayLive == 123 \* longest price history of the liveness specification
MaxZ == 45        \* largest |z-score|, in tenths, given to the trend logic
PriceSpread == 10 \* half width of the price levels given to identify_trend

\* ------------------------------------------------------ program constants
LOOKBACK_DAYS == 20
TREND_LOOKBACK == 100
MAX_POSITION_PCT == 4        \* 0.4, in tenths
VOLATILITY_THRESHOLD == 12   \* 0.012, in units of 1e-3
ENTRY_THRESHOLD == 25        \* 2.5, in tenths
EXIT_THRESHOLD == 8          \* 0.8, in tenths
MIN_PRICE == 10
MAX_HOLDING_DAYS == 5
RSI_OVERSOLD == 20
RSI_OVERBOUGHT == 80

Inst == 1..NumInst

\* ------------------------------------------------------------ arithmetic
Max(a, b) == IF a >= b THEN a ELSE b
Min(a, b) == IF a <= b THEN a ELSE b
Abs(x) == IF x >= 0 THEN x ELSE -x
Sign(x) == IF x > 0 THEN 1 ELSE IF x < 0 THEN -1 ELSE 0

\* a / b rounded to the nearest integer, for a >= 0 and b > 0
RoundDiv(a, b) == (a + b \div 2) \div b

\* int(x): truncation toward zero of the quotient n / d, d > 0
TruncDiv(n, d) == IF n >= 0 THEN n \div d ELSE -((-n) \div d)

Sum10(s, lo) ==
    s[lo] + s[lo + 1] + s[lo + 2] + s[lo + 3] + s[lo + 4]
        + s[lo + 5] + s[lo + 6] + s[lo + 7] + s[lo + 8] + s[lo + 9]

\* s[lo] + ... + s[hi], ten elements at a time
RECURSIVE SumRange(_, _, _)
SumRange(s, lo, hi) ==
    IF lo > hi THEN 0
    ELSE IF hi - lo >= 9 THEN Sum10(s, lo) + SumRange(s, lo + 10, hi)
    ELSE s[lo] + SumRange(s, lo + 1, hi)

\* sum of the last n elements of s (np.mean(s[-n:]) is this sum over n)
SumLast(s, n) == SumRange(s, Len(s) - n + 1, Len(s))

Square(x) == x * x

RECURSIVE SumSquares(_, _, _)
SumSquares(s, lo, hi) ==
    IF lo > hi THEN 0 ELSE Square(s[lo]) + SumSquares(s, lo + 1, hi)

\* largest n with n * n <= x, by bisection on lo..hi
RECURSIVE ISqrtIn(_, _, _)
ISqrtIn(x, lo, hi) ==
    IF lo >= hi THEN lo
    ELSE LET mid == (lo + hi + 1) \div 2
         IN  IF mid * mid <= x THEN ISqrtIn(x, mid, hi)
             ELSE ISqrtIn(x, lo, mid - 1)

ISqrt(x) == ISqrtIn(x, 0, 46340)

\* ------------------------------------------------------------- np.log
\* Natural logarithm of the integer n >= 1 in units of 1e-5:
\* n = 2^k * m with 1 <= m < 2, ln n = k ln 2 + 2 atanh((m-1)/(m+1)).
LnScale == 100000

RECURSIVE Log2Floor(_)
Log2Floor(n) == IF n < 2 THEN 0 ELSE 1 + Log2Floor(n \div 2)

RECURSIVE AtanhSeries(_, _, _, _)
AtanhSeries(t, y2, j, acc) ==
    IF j > 11 THEN acc
    ELSE AtanhSeries(RoundDiv(t * y2, LnScale), y2, j + 2, acc + RoundDiv(t, j))

\* y = (m - 1) / (m + 1) = (n - 2^k) / (n + 2^k), scaled
LnOf(k, y) ==
    RoundDiv(k * 693147, 10) + 2 * AtanhSeries(y, RoundDiv(y * y, LnScale), 1, 0)

LnReduced(n, k) == LnOf(k, RoundDiv((n - 2^k) * LnScale, n + 2^k))

Ln(n) == LnReduced(n, Log2Floor(n))

\* units of 1e-5 to units of 1e-3, rounded to the nearest
ToMilli(x) == IF x >= 0 THEN RoundDiv(x, 100) ELSE -RoundDiv(-x, 100)

\* np.log(a / b) in units of 1e-3; log(1.0) is exactly 0
LogReturn(a, b) ==
    IF a = b THEN 0 ELSE ToMilli(Ln(a) - Ln(b))

\* ------------------------------------------------------- calculate_rsi
\* RSI as the fraction num / den.  prices is the slice price_history[-10:],
\* period = 2: the averages are taken over the last two deltas.
AvgLossIsZero(loss_sum) == loss_sum = 0

\* avg_gain = gain_sum / period and avg_loss = loss_sum / period;
\* rs = avg_gain / avg_loss,
\* rsi = 100 - 100 / (1 + rs) = 100 gain_sum / (gain_sum + loss_sum)
RsiOf(gain_sum, loss_sum) ==
    IF AvgLossIsZero(loss_sum)
    THEN [num |-> 100, den |-> 1, raises |-> FALSE]
    ELSE [num |-> 100 * gain_sum, den |-> gain_sum + loss_sum,
          raises |-> loss_sum = 0]

\* gains[-period:] and losses[-period:] of deltas = np.diff(prices), summed
GainSum(prices, period) ==
    SumLast([k \in 1..(Len(prices) - 1) |-> Max(prices[k + 1] - prices[k], 0)],
            period)
LossSum(prices, period) ==
    SumLast([k \in 1..(Len(prices) - 1) |-> Max(prices[k] - prices[k + 1], 0)],
            period)

calculate_rsi(prices) ==
    IF Len(prices) < 2 + 1 THEN [num |-> 50, den |-> 1, raises |-> FALSE]
    ELSE RsiOf(GainSum(prices, 2), LossSum(prices, 2))

RsiBelow(rsi, c) == rsi.num < c * rsi.den
RsiAbove(rsi, c) == rsi.num > c * rsi.den

\* ------------------------------------------------------ identify_trend
\* short_ma > long_ma * 1.02 with short_ma = short_sum / 20 and
\* long_ma = long_sum / 100, cross-multiplied.
\* mutant: the 2% buffer is forgotten
TrendOf_NoBuffer(short_sum, short_period, long_sum, long_period) ==
    IF short_sum * long_period > long_sum * short_period THEN 1
    ELSE IF short_sum * long_period < long_sum * short_period THEN -1
    ELSE 0

TrendOf(short_sum, short_period, long_sum, long_period) ==
    IF short_sum * long_period * 100 > long_sum * short_period * 102 THEN 1
    ELSE IF short_sum * long_period * 100 < long_sum * short_period * 98 THEN -1
    ELSE 0

identify_trend(prices) ==
    IF Len(prices) < TREND_LOOKBACK THEN 0
    ELSE TrendOf(SumLast(prices, 20), 20,
                 SumLast(prices, TREND_LOOKBACK), TREND_LOOKBACK)

\* ------------------------------------------- volatility and the z-score
\* returns = np.log(price_history[-20:] / price_history[-21:-1])
RECURSIVE LogReturnsFrom(_, _)
LogReturnsFrom(price_history, k) ==
    IF k = 0 THEN <<>>
    ELSE LET nt == Len(price_history)
         IN  Append(LogReturnsFrom(price_history, k - 1),
                    LogReturn(price_history[nt - LOOKBACK_DAYS + k],
                              price_history[nt - LOOKBACK_DAYS + k - 1]))

LogReturns(price_history) == LogReturnsFrom(price_history, LOOKBACK_DAYS)

ReturnsBound(nt) == nt >= LOOKBACK_DAYS + 1

\* volatility > VOLATILITY_THRESHOLD.  With n = LOOKBACK_DAYS and np.std the
\* population deviation, std > T  <=>  n Sum(r^2) - Sum(r)^2 > n^2 T^2
\* <=>  Sum(r^2) - n T^2 > Sum(r)^2 / n; the left side is an integer, so the
\* quotient may be floored.  Without the window the default 0.02 is used.
AboveThreshold(sum, sum_squares) ==
    sum_squares - LOOKBACK_DAYS * VOLATILITY_THRESHOLD * VOLATILITY_THRESHOLD
        > (sum * sum) \div LOOKBACK_DAYS

HighVolatility(nt, returns) ==
    IF ReturnsBound(nt)
    THEN AboveThreshold(SumRange(returns, 1, LOOKBACK_DAYS),
                        SumSquares(returns, 1, LOOKBACK_DAYS))
    ELSE 20 > VOLATILITY_THRESHOLD

\* (LOOKBACK_DAYS * volatility)^2, evaluated on the low-volatility path only
VarOf(sum, sum_squares) == LOOKBACK_DAYS * sum_squares - sum * sum

VarScaled(returns) ==
    VarOf(SumRange(returns, 1, LOOKBACK_DAYS), SumSquares(returns, 1, LOOKBACK_DAYS))

\* mutant: the division is not guarded
ZDivides_Unguarded(v) == TRUE

\* the guard of the division in line 112
ZDivides(v) == v > 0

\* z_score = (current_return - mean_returns) / volatility as the pair (d, v),
\* z = d / sqrt(v): d = n (current_return - mean), v = (n volatility)^2.
\* z = 0 is the pair (0, 1).  Reading "returns" while it is unbound raises.
ZOf(d, v, unbound) ==
    IF ZDivides(v)
    THEN [d |-> d, v |-> v, raises |-> (v = 0) \/ unbound]
    ELSE [d |-> 0, v |-> 1, raises |-> unbound]

\* mean_returns = np.mean(returns) if nt >= LOOKBACK_DAYS + 1 else 0
MeanReadsReturns(nt) == nt >= LOOKBACK_DAYS + 1

\* current_return = np.log(currentPrices[i] / prcSoFar[i, -2])
ZScore(price_history, nt, returns) ==
    ZOf(LOOKBACK_DAYS * LogReturn(price_history[nt], price_history[nt - 1])
            - (IF MeanReadsReturns(nt) THEN SumRange(returns, 1, LOOKBACK_DAYS)
               ELSE 0),
        VarScaled(returns),
        MeanReadsReturns(nt) /\ ~ReturnsBound(nt))

\* z < c / 10
ZBelow(z, c) ==
    IF c <= 0 THEN z.d < 0 /\ 100 * z.d * z.d > c * c * z.v
    ELSE z.d <= 0 \/ 100 * z.d * z.d < c * c * z.v

\* z > c / 10
ZAbove(z, c) == ZBelow([d |-> -z.d, v |-> z.v], -c)

\* mutant: the fraction MAX_POSITION_PCT is forgotten
OpenSize_Uncapped(posLimit, z) ==
    IF z.d * z.d >= 16 * z.v
    THEN posLimit
    ELSE (posLimit * Abs(z.d) * 100) \div (4 * ISqrt(z.v * 10000))

\* int(MAX_POSITION_PCT * posLimit * min(1.0, abs(z) / 4.0))
OpenSize(posLimit, z) ==
    IF z.d * z.d >= 16 * z.v
    THEN (MAX_POSITION_PCT * posLimit) \div 10
    ELSE (MAX_POSITION_PCT * posLimit * Abs(z.d) * 100)
            \div (4 * 10 * ISqrt(z.v * 10000))

\* ------------------------------------------------------ position sizing
\* int(10000 / max(price, MIN_PRICE))
PosLimit(price) == 10000 \div Max(price, MIN_PRICE)

\* mutant: the position is doubled instead of halved
NeutralDecay_Grow(pos) == 2 * pos

\* int(currentPos[i] * 0.5)
NeutralDecay(pos) == TruncDiv(pos, 2)

\* mutant: the factor of the neutral path
VolatilityDecay_Half(pos) == IF pos >= 0 THEN pos \div 2 ELSE -((-pos) \div 2)

\* int(currentPos[i] * 0.7).  0.7 is no binary fraction: for these magnitudes
\* (all up to 400, the largest position an entry can open) the double product
\* falls just below the integer 7 |pos| / 10 and truncates one lower.
VolatilityDecay(pos) ==
    LET a == Abs(pos)
        q == (7 * a) \div 10
             - (IF a \in {90, 170, 180, 330, 340, 350, 360} THEN 1 ELSE 0)
    IN  Sign(pos) * q

\* mutant: no clamp
Clip_None(x, lo, hi) == x

\* np.clip(newPos[i], -posLimits[i], posLimits[i])
Clip(x, lo, hi) == Max(lo, Min(hi, x))

\* mutant: the holding period never expires
HoldingExpired_Never(entry_day, day) == FALSE

\* position_entry_day[i] >= 0 and age >= MAX_HOLDING_DAYS
HoldingExpired(entry_day, day) ==
    entry_day >= 0 /\ day - entry_day >= MAX_HOLDING_DAYS

\* mutant: the margin of 10 days is forgotten
InsufficientHistory_NoMargin(nt) == nt < TREND_LOOKBACK

\* nt < TREND_LOOKBACK + 10
InsufficientHistory(nt) == nt < TREND_LOOKBACK + 10

\* mutant: the row of the last instrument instead of row i
PriceHistory_LastRow(prcSoFar, i) == prcSoFar[Len(prcSoFar)]

\* price_history = prcSoFar[i, :]
PriceHistory(prcSoFar, i) == prcSoFar[i]

\* ------------------------------------- getMyPosition, one loop iteration
\* The body of "for i in range(nins)" for instrument i: the new position
\* newPos[i], the new position_entry_day[i], the branch taken and whether an
\* exception is raised.  cur_pos is currentPos[i], entry_day is
\* position_entry_day[i], day is global_day_counter (already set to nt).
\* mutant: the entry day is not recorded
Opened_NoDay(size, day) == [pos |-> size, entry |-> -1, path |-> "entry"]

\* newPos[i] = size; position_entry_day[i] = global_day_counter
Opened(size, day) == [pos |-> size, entry |-> day, path |-> "entry"]

\* newPos[i] = 0; position_entry_day[i] = -1
Closed(branch) == [pos |-> 0, entry |-> -1, path |-> branch]

\* mutant: holding clears the entry day
Held_ClearsDay(cur_pos, entry_day) ==
    [pos |-> cur_pos, entry |-> -1, path |-> "hold"]

\* newPos[i] = current_position
Held(cur_pos, entry_day) == [pos |-> cur_pos, entry |-> entry_day, path |-> "hold"]

\* newPos[i] = np.clip(newPos[i], -posLimits[i], posLimits[i]), and the
\* exception status of the iteration
Clipped(r, posLimit, raises) ==
    [pos |-> Clip(r.pos, -posLimit, posLimit), entry |-> r.entry,
     path |-> r.path, raises |-> raises]

\* z_score < -ENTRY_THRESHOLD and rsi < RSI_OVERSOLD and current_position == 0
OpenLong(cur_pos, z, rsi) ==
    ZBelow(z, -ENTRY_THRESHOLD) /\ RsiBelow(rsi, RSI_OVERSOLD) /\ cur_pos = 0

\* mutant: both exit signals are required
ExitLong_Both(cur_pos, z, rsi) ==
    cur_pos > 0 /\ (ZAbove(z, -EXIT_THRESHOLD) /\ RsiAbove(rsi, 70))

\* current_position > 0 and (z_score > -EXIT_THRESHOLD or rsi > 70)
ExitLong(cur_pos, z, rsi) ==
    cur_pos > 0 /\ (ZAbove(z, -EXIT_THRESHOLD) \/ RsiAbove(rsi, 70))

\* mutant: the RSI level of the long side is reused
OpenShort_Oversold(cur_pos, z, rsi) ==
    ZAbove(z, ENTRY_THRESHOLD) /\ RsiAbove(rsi, RSI_OVERSOLD) /\ cur_pos = 0

\* z_score > ENTRY_THRESHOLD and rsi > RSI_OVERBOUGHT and current_position == 0
OpenShort(cur_pos, z, rsi) ==
    ZAbove(z, ENTRY_THRESHOLD) /\ RsiAbove(rsi, RSI_OVERBOUGHT) /\ cur_pos = 0

\* current_position < 0 and (z_score < EXIT_THRESHOLD or rsi < 30)
ExitShort(cur_pos, z, rsi) ==
    cur_pos < 0 /\ (ZBelow(z, EXIT_THRESHOLD) \/ RsiBelow(rsi, 30))

TrendLogic(cur_pos, entry_day, day, posLimit, trend, z, rsi, raises) ==
    IF HoldingExpired(entry_day, day)
    THEN [pos |-> 0, entry |-> -1, path |-> "force", raises |-> raises]
    ELSE IF trend = 1
    THEN IF OpenLong(cur_pos, z, rsi)
         THEN Clipped(Opened(OpenSize(posLimit, z), day), posLimit, raises)
         ELSE IF ExitLong(cur_pos, z, rsi)
         THEN Clipped(Closed("exit"), posLimit, raises)
         ELSE Clipped(Held(cur_pos, entry_day), posLimit, raises)
    ELSE IF OpenShort(cur_pos, z, rsi)
         THEN Clipped(Opened(-OpenSize(posLimit, z), day), posLimit, raises)
         ELSE IF ExitShort(cur_pos, z, rsi)
         THEN Clipped(Closed("exit"), posLimit, raises)
         ELSE Clipped(Held(cur_pos, entry_day), posLimit, raises)

\* mutant: only a price below 1 is rejected
BelowFloor_Unit(price) == price < 1

\* currentPrices[i] < MIN_PRICE
BelowFloor(price) == price < MIN_PRICE

Filters(cur_pos, entry_day, day, nt, price, posLimit, trend, returns, z, rsi) ==
    IF BelowFloor(price)
    THEN [pos |-> 0, entry |-> -1, path |-> "floor", raises |-> FALSE]
    ELSE IF trend = 0
    THEN [pos |-> NeutralDecay(cur_pos), entry |-> entry_day,
          path |-> "neutral", raises |-> FALSE]
    ELSE IF HighVolatility(nt, returns)
    THEN [pos |-> VolatilityDecay(cur_pos), entry |-> entry_day,
          path |-> "highvol", raises |-> FALSE]
    ELSE TrendLogic(cur_pos, entry_day, day, posLimit, trend, z, rsi,
                    z.raises \/ rsi.raises)

\* rsi = calculate_rsi(price_history[-10:]) if len(price_history) >= 10 else 50
RsiOfHistory(price_history) ==
    IF Len(price_history) >= 10
    THEN calculate_rsi(SubSeq(price_history, Len(price_history) - 9,
                              Len(price_history)))
    ELSE [num |-> 50, den |-> 1, raises |-> FALSE]

InstrumentOf(price_history, nt, returns, price, cur_pos, entry_day, day) ==
    Filters(cur_pos, entry_day, day, nt, price, PosLimit(price),
            identify_trend(price_history), returns,
            ZScore(price_history, nt, returns), RsiOfHistory(price_history))

InstrumentAt(price_history, nt, price, cur_pos, entry_day, day) ==
    InstrumentOf(price_history, nt, LogReturns(price_history), price,
                 cur_pos, entry_day, day)

Instrument(prcSoFar, i, cur_pos, entry_day, day) ==
    InstrumentAt(PriceHistory(prcSoFar, i), Len(PriceHistory(prcSoFar, i)),
                 prcSoFar[i][Len(prcSoFar[i])], cur_pos, entry_day, day)

\* ------------------------------------------------------------------ state
VARIABLES
    prc,                  \* the price history of the latest call (the caller's)
    currentPos,           \* global currentPos
    position_entry_day,   \* global position_entry_day
    global_day_counter,   \* global global_day_counter
    ret,                  \* the vector returned by the latest call
    prevPos,              \* currentPos before the latest call
    prevEntry,            \* position_entry_day before the latest call
    path,                 \* branch taken per instrument in the latest call
    openedAt,             \* number of days of the call that last opened
    err,                  \* some call raised an exception
    ncalls,               \* number of calls made
    lastCall,             \* how the history of the latest call was chosen
    prcB, currentPosB, position_entry_dayB, retB,  \* a second, independent run
    fnArgs,               \* the arguments of a single function application
    fnOut,                \* its result
    fnDone                \* the function has been applied

runA == <<prc, currentPos, position_entry_day, global_day_counter, ret,
          prevPos, prevEntry, path, openedAt, err, ncalls, lastCall>>
runB == <<prcB, currentPosB, position_entry_dayB, retB>>
fnVars == <<fnArgs, fnOut, fnDone>>
vars == <<runA, runB, fnVars>>

Zeros == [i \in Inst |-> 0]

\* ------------------------------------------------- the caller's histories
Rep(p, n) == [k \in 1..n |-> p]

\* 109-day histories: a settled uptrend near 110, an uptrend near 515 that is
\* barely above the 2% buffer, and a settled downtrend near 100
BaseHistory(b) ==
    CASE b = 0 -> Rep(100, 85) \o Rep(110, 24)
      [] b = 1 -> Rep(500, 79) \o Rep(515, 30)
      [] b = 2 -> Rep(110, 85) \o Rep(100, 24)

Bases == 0..2

BaseMatrix(a) == [i \in Inst |-> BaseHistory((a + i - 1) % 3)]
BaseMatrixB(a) ==
    [i \in Inst |-> IF i = 1 THEN BaseHistory(a % 3) ELSE BaseHistory((a + i) % 3)]

Kinds == <<"stay", "down", "up", "spike", "crash">>

\* the price a day of the given kind appends after price p
Move(kind, p) ==
    CASE kind = "stay" -> p
      [] kind = "down" -> p - 1
      [] kind = "up" -> p + 1
      [] kind = "spike" -> 3000
      [] kind = "crash" -> MIN_PRICE - 1

KindOf(k, i) == Kinds[((k + i - 1) % Len(Kinds)) + 1]

Scenarios == 0..(Len(Kinds) - 1)

\* one more day for the rows 1..n: instrument i moves by kind KindOf(k + shift(i), i)
RECURSIVE NextRows(_, _, _, _)
NextRows(h, k, n, other) ==
    IF n = 0 THEN <<>>
    ELSE Append(NextRows(h, k, n - 1, other),
                Append(h[n], Move(KindOf(IF n = 1 THEN k ELSE k + other, n),
                                  h[n][Len(h[n])])))

NextDay(h, k) == NextRows(h, k, NumInst, 0)

\* the same day for instrument 1, another one for the other instruments
NextDayB(h, k) == NextRows(h, k, NumInst, 1)

\* ------------------------------------------------------------------- Init
\* the globals after import, before the first call, the caller holding the
\* histories of bases a
InitRun(a) ==
        /\ prc = BaseMatrix(a)
        /\ prcB = BaseMatrixB(a)
        /\ currentPos = Zeros
        /\ position_entry_day = [i \in Inst |-> -1]
        /\ global_day_counter = 0
        /\ ret = Zeros
        /\ prevPos = Zeros
        /\ prevEntry = [i \in Inst |-> -1]
        /\ path = [i \in Inst |-> "none"]
        /\ openedAt = [i \in Inst |-> -1]
        /\ err = FALSE
        /\ ncalls = 0
        /\ lastCall = "none"
        /\ currentPosB = Zeros
        /\ position_entry_dayB = [i \in Inst |-> -1]
        /\ retB = Zeros

\* no single function application is pending
NoApplication == fnArgs = <<>> /\ fnOut = <<>> /\ fnDone = FALSE

Init == \E a \in Bases : InitRun(a) /\ NoApplication

\* ---------------------------------------------------------- getMyPosition
\* the results of the loop iterations 1..n, in order; pos and entry are the
\* globals currentPos and position_entry_day at the call
RECURSIVE LoopFrom(_, _, _, _, _)
LoopFrom(prcSoFar, day, n, pos, entry) ==
    IF n = 0 THEN <<>>
    ELSE Append(LoopFrom(prcSoFar, day, n - 1, pos, entry),
                Instrument(prcSoFar, n, pos[n], entry[n], day))

\* mutant: the counter counts calls instead of days
DayCounter_Increment(nt, old) == old + 1

\* global_day_counter = nt
DayCounter(nt, old) == nt

\* the effect of one call on the globals, given the loop results
Commit(prcSoFar, nt, res) ==
    /\ prc' = prcSoFar
    /\ global_day_counter' = DayCounter(nt, global_day_counter)
    /\ prevPos' = currentPos
    /\ prevEntry' = position_entry_day
    /\ ncalls' = ncalls + 1
    /\ IF InsufficientHistory(nt)
       THEN /\ ret' = Zeros
            /\ path' = [i \in Inst |-> "short"]
            /\ UNCHANGED <<currentPos, position_entry_day, err, openedAt>>
       ELSE /\ openedAt' = [i \in Inst |-> IF res[i].path = "entry" THEN nt
                                               ELSE openedAt[i]]
            /\ currentPos' = [i \in Inst |-> res[i].pos]
            /\ position_entry_day' = [i \in Inst |-> res[i].entry]
            /\ ret' = [i \in Inst |-> res[i].pos]
            /\ path' = [i \in Inst |-> res[i].path]
            /\ err' = (err \/ \E i \in Inst : res[i].raises)

\* one call getMyPosition(prcSoFar)
getMyPosition(prcSoFar) ==
    Commit(prcSoFar, Len(prcSoFar[1]),
           LoopFrom(prcSoFar, DayCounter(Len(prcSoFar[1]), global_day_counter),
                    NumInst, currentPos, position_entry_day))

\* the same call in the second run
CommitB(prcSoFar, nt, res) ==
    /\ prcB' = prcSoFar
    /\ IF InsufficientHistory(nt)
       THEN /\ retB' = Zeros
            /\ UNCHANGED <<currentPosB, position_entry_dayB>>
       ELSE /\ currentPosB' = [i \in Inst |-> res[i].pos]
            /\ position_entry_dayB' = [i \in Inst |-> res[i].entry]
            /\ retB' = [i \in Inst |-> res[i].pos]

getMyPositionB(prcSoFar) ==
    CommitB(prcSoFar, Len(prcSoFar[1]),
            LoopFrom(prcSoFar, DayCounter(Len(prcSoFar[1]), global_day_counter),
                     NumInst, currentPosB, position_entry_dayB))

\* the caller appends one day and calls
CallNewDay(k) ==
    /\ \E h \in {NextDay(prc, k)} : getMyPosition(h)
    /\ lastCall' = "newday"
    /\ UNCHANGED <<runB, fnVars>>

\* the caller calls again with the history of the previous call
CallSame ==
    /\ ncalls > 0
    /\ getMyPosition(prc)
    /\ lastCall' = "same"
    /\ UNCHANGED <<runB, fnVars>>

\* the caller calls with another, unrelated history
CallOther(a) ==
    /\ \E h \in {BaseMatrix(a)} : getMyPosition(h)
    /\ lastCall' = "other"
    /\ UNCHANGED <<runB, fnVars>>

\* two runs side by side: the same day for instrument 1, different days for
\* the other instruments
CallPair(k) ==
    /\ \E h \in {NextDay(prc, k)} : getMyPosition(h)
    /\ \E h \in {NextDayB(prcB, k)} : getMyPositionB(h)
    /\ lastCall' = "newday"
    /\ UNCHANGED fnVars

\* one day per call, the history only grows
Daily ==
    /\ Len(prc[1]) < MaxDay
    /\ \E k \in Scenarios : CallNewDay(k)

NextDaily == Daily
SpecDaily == Init /\ [][NextDaily]_vars

Pair ==
    /\ ncalls < MaxCalls
    /\ \E k \in Scenarios : CallPair(k)

NextPair == Pair
SpecPair == Init /\ [][NextPair]_vars

\* any sequence of calls
NewDay == ncalls < MaxCalls /\ \E k \in Scenarios : CallNewDay(k)
Same == ncalls < MaxCalls /\ CallSame
Other == ncalls < MaxCalls /\ \E a \in Bases : CallOther(a)

Next == NewDay \/ Same \/ Other
Spec == Init /\ [][Next]_vars

\* one day per call for ever longer histories, each call eventually made;
\* the caller holds bases 1 and offers two scenarios per day
LiveScenarios == 1..2
InitLive == InitRun(1) /\ NoApplication
DailyLive ==
    /\ Len(prc[1]) < MaxDayLive
    /\ \E k \in LiveScenarios : CallNewDay(k)

\* the caller's part of a call: one more call is made while days remain.
\* getMyPosition returns for every history, so the caller can always go on;
\* every step that counts a call is a whole DailyLive step.
CallerAdvances == Len(prc[1]) < MaxDayLive /\ ncalls' = ncalls + 1

SpecLive == InitLive /\ [][DailyLive]_vars /\ WF_ncalls(CallerAdvances)

\* ------------------------------------------ single function applications
\* The trend logic of one loop iteration (lines 117-153) applied to one
\* argument tuple, and to its mirror image: trend, z-score and position
\* negated, RSI r replaced by 100 - r.  z is given in tenths (v = 100).
ZLevels == (-MaxZ)..MaxZ
RsiLevels == {0, 19, 20, 21, 29, 30, 31, 50, 69, 70, 71, 79, 80, 81, 100}
TrendLogicArgs ==
    [trend : {-1, 1}, d : ZLevels, rsi : RsiLevels, cur_pos : {-30, 0, 30},
     entry_day : {-1, 110, 112}, day : {115}, posLimit : {19, 100}]

Mirrored(a) ==
    [trend |-> -a.trend, d |-> -a.d, rsi |-> 100 - a.rsi,
     cur_pos |-> -a.cur_pos, entry_day |-> a.entry_day, day |-> a.day,
     posLimit |-> a.posLimit]

TrendLogicOn(a) ==
    TrendLogic(a.cur_pos, a.entry_day, a.day, a.posLimit, a.trend,
               [d |-> a.d, v |-> 100, raises |-> FALSE],
               [num |-> a.rsi, den |-> 1, raises |-> FALSE], FALSE)

InitMirror ==
    /\ InitRun(0)
    /\ fnArgs \in TrendLogicArgs
    /\ fnOut = <<>>
    /\ fnDone = FALSE

ApplyTrendLogic ==
    /\ ~fnDone
    /\ fnDone' = TRUE
    /\ fnOut' = [plain |-> TrendLogicOn(fnArgs),
                 mirror |-> TrendLogicOn(Mirrored(fnArgs))]
    /\ UNCHANGED <<fnArgs, runA, runB>>

SpecMirror == InitMirror /\ [][ApplyTrendLogic]_vars

\* identify_trend applied to a series of old_price followed by 20 days of
\* new_price
PriceLevels == (200 - PriceSpread)..(200 + PriceSpread)
SeriesLengths == {TREND_LOOKBACK - 1, TREND_LOOKBACK, TREND_LOOKBACK + 10}
TrendSeries(old_price, new_price, length) ==
    Rep(old_price, length - 20) \o Rep(new_price, 20)

InitTrend ==
    /\ InitRun(0)
    /\ \E old_price \in PriceLevels, new_price \in PriceLevels,
          length \in SeriesLengths :
            fnArgs = [old_price |-> old_price, new_price |-> new_price,
                      length |-> length,
                      prices |-> TrendSeries(old_price, new_price, length)]
    /\ fnOut = <<>>
    /\ fnDone = FALSE

ApplyIdentifyTrend ==
    /\ ~fnDone
    /\ fnDone' = TRUE
    /\ fnOut' = identify_trend(fnArgs.prices)
    /\ UNCHANGED <<fnArgs, runA, runB>>

SpecTrend == InitTrend /\ [][ApplyIdentifyTrend]_vars

\* ================================================================ claims
\* the position limit of instrument i at the price of the latest call
LimitNow(i) ==
    LET price == prc[i][Len(prc[i])]
    IN  10000 \div (IF price > 10 THEN price ELSE 10)

Sufficient == ncalls > 0 /\ Len(prc[1]) >= 110

\* C1: every element of every returned vector satisfies
\* |position[i]| <= posLimit[i], the limit taken at the price of the call
C1_PositionWithinLimit ==
    \A i \in Inst : ret[i] <= LimitNow(i) /\ -ret[i] <= LimitNow(i)

\* C2: currentPos equals the vector returned by the most recent call
C2_CurrentPosIsReturned == currentPos = ret

\* C3: with one new day per call, no returned position is older than
\* MAX_HOLDING_DAYS: a position opened on day d is flat in the vector
\* returned for day d + 5 and for every later day
C3_ClosedAtMaxHolding ==
    \A i \in Inst :
        ret[i] # 0 => /\ position_entry_day[i] >= 0
                      /\ global_day_counter - position_entry_day[i] < 5

\* C4: a call with fewer than 110 days of history returns the all-zero
\* vector with one entry per instrument, whatever the cross-call state holds
C4_ShortHistoryReturnsZeros ==
    (ncalls > 0 /\ Len(prc[1]) < 110) =>
        /\ DOMAIN ret = Inst
        /\ \A i \in Inst : ret[i] = 0

\* a short-history call made while a position and its entry day are held
C4_Witness ==
    /\ ncalls > 0
    /\ Len(prc[1]) < 110
    /\ \E i \in Inst : currentPos[i] # 0 /\ position_entry_day[i] >= 0
    /\ \A i \in Inst : ret[i] = 0

\* C5: no call raises, and every call returns one position per instrument
C5_Total ==
    /\ ~err
    /\ DOMAIN ret = Inst
    /\ \A i \in Inst : ret[i] \in Int

\* a call that reached the z-score and the RSI on a window of 21 equal
\* prices: zero volatility and zero average loss, both resolved by fallbacks
C5_Witness ==
    /\ Sufficient
    /\ ~err
    /\ \E i \in Inst :
          /\ path[i] = "hold"
          /\ \A k \in 0..20 : prc[i][Len(prc[i]) - k] = prc[i][Len(prc[i])]

\* C6: two runs that agree on instrument 1 (its price row, its position and
\* its entry day) return the same position for it and leave it the same
\* entry day, whatever the other instruments' prices and state are
C6_NoCrossDependency ==
    prc[1] = prcB[1] =>
        /\ ret[1] = retB[1]
        /\ currentPos[1] = currentPosB[1]
        /\ position_entry_day[1] = position_entry_dayB[1]

\* instrument 1 holds a position, equal in both runs, while another
\* instrument has other prices and another position in the second run
C6_Witness ==
    /\ Sufficient
    /\ prc[1] = prcB[1]
    /\ ret[1] # 0
    /\ ret[1] = retB[1]
    /\ \E j \in Inst : j # 1 /\ prc[j] # prcB[j] /\ ret[j] # retB[j]

\* int(p * 0.5) (tenths = 5) and int(p * 0.7) (tenths = 7) as the double
\* products truncate, for |p| up to 400
TruncatedProduct(p, tenths) ==
    LET a == IF p >= 0 THEN p ELSE -p
        q == (tenths * a) \div 10
             - (IF tenths = 7 /\ a \in {90, 170, 180, 330, 340, 350, 360}
                THEN 1 ELSE 0)
    IN  IF p >= 0 THEN q ELSE -q

\* a call with the history of the previous call
RepeatedCall == ncalls > 0 /\ ncalls' = ncalls + 1 /\ prc' = prc

\* C7 as stated: a second call with the identical history returns the same
\* vector and leaves currentPos, position_entry_day and global_day_counter
\* as the first call left them
C7_RepeatIsNoOp ==
    [][RepeatedCall =>
          /\ ret' = ret
          /\ currentPos' = currentPos
          /\ position_entry_day' = position_entry_day
          /\ global_day_counter' = global_day_counter]_vars

\* C7 amended: the second call leaves global_day_counter unchanged; for an
\* instrument with a nonzero position limit that the first call did not
\* decay and did not force-close it returns the same position and leaves
\* the same state; a position the first call decayed (neutral trend, high
\* volatility) is decayed once more, its entry day unchanged
C7_RepeatKeepsSettled ==
    [][RepeatedCall =>
          /\ global_day_counter' = global_day_counter
          /\ \A i \in Inst :
                /\ (/\ path[i] \notin {"neutral", "highvol", "force"}
                    /\ 10000 \div (IF prc[i][Len(prc[i])] > 10
                                    THEN prc[i][Len(prc[i])] ELSE 10) >= 1) =>
                        /\ ret'[i] = ret[i]
                        /\ currentPos'[i] = currentPos[i]
                        /\ position_entry_day'[i] = position_entry_day[i]
                /\ path[i] = "neutral" =>
                        /\ ret'[i] = TruncatedProduct(ret[i], 5)
                        /\ currentPos'[i] = ret'[i]
                        /\ position_entry_day'[i] = position_entry_day[i]
                /\ path[i] = "highvol" =>
                        /\ ret'[i] = TruncatedProduct(ret[i], 7)
                        /\ currentPos'[i] = ret'[i]
                        /\ position_entry_day'[i] = position_entry_day[i]]_vars

\* a repeated call that returned an open position unchanged
C7_Witness ==
    /\ lastCall = "same"
    /\ Sufficient
    /\ \E i \in Inst :
          /\ path[i] = "hold"
          /\ ret[i] # 0
          /\ ret[i] = prevPos[i]
          /\ position_entry_day[i] = prevEntry[i]

\* C8 as stated: position_entry_day[i] is -1 exactly when currentPos[i] = 0
C8_EntryDayIffOpen ==
    \A i \in Inst : (position_entry_day[i] = -1) <=> (currentPos[i] = 0)

\* C8 amended: a nonzero position always has its entry day recorded, and
\* that entry day is the day index of the call that opened the position
C8_OpenHasEntryDay ==
    \A i \in Inst :
        currentPos[i] # 0 =>
            /\ position_entry_day[i] >= 0
            /\ position_entry_day[i] = openedAt[i]

\* a position that is still open after a call that decayed it
C8_Witness ==
    \E i \in Inst :
        /\ path[i] \in {"neutral", "highvol"}
        /\ currentPos[i] # 0
        /\ position_entry_day[i] >= 0

\* C9 as stated: on the hold path the returned position is the previous
\* position and the entry day is unchanged
C9_HoldKeepsPosition ==
    \A i \in Inst :
        (Sufficient /\ path[i] = "hold") =>
            /\ ret[i] = prevPos[i]
            /\ position_entry_day[i] = prevEntry[i]

\* C9 amended: on the hold path the returned position is the previous
\* position clamped into [-posLimit, posLimit]; the entry day is unchanged
C9_HoldKeepsClampedPosition ==
    \A i \in Inst :
        (Sufficient /\ path[i] = "hold") =>
            /\ ret[i] = (IF prevPos[i] > LimitNow(i) THEN LimitNow(i)
                         ELSE IF prevPos[i] < -LimitNow(i) THEN -LimitNow(i)
                         ELSE prevPos[i])
            /\ position_entry_day[i] = prevEntry[i]

\* an open position larger than the current limit reaches the hold path
C9_Witness ==
    \E i \in Inst :
        /\ Sufficient
        /\ path[i] = "hold"
        /\ prevPos[i] > LimitNow(i)
        /\ ret[i] = LimitNow(i)

PriceNow(i) == prc[i][Len(prc[i])]
NeutralCase(i) ==
    Sufficient /\ PriceNow(i) >= 10 /\ identify_trend(prc[i]) = 0
HighVolatilityCase(i) ==
    /\ Sufficient
    /\ PriceNow(i) >= 10
    /\ identify_trend(prc[i]) # 0
    /\ HighVolatility(Len(prc[i]), LogReturns(prc[i]))

\* C10: on the neutral-trend path the new position is the previous one
\* times 0.5 truncated toward zero, on the high-volatility path times 0.7
\* truncated toward zero; the entry day is unchanged and nothing else
\* (force-close, entry, exit, clamp) is applied
C10_DecayOnly ==
    \A i \in Inst :
        /\ NeutralCase(i) =>
              /\ ret[i] = TruncatedProduct(prevPos[i], 5)
              /\ position_entry_day[i] = prevEntry[i]
        /\ HighVolatilityCase(i) =>
              /\ ret[i] = TruncatedProduct(prevPos[i], 7)
              /\ position_entry_day[i] = prevEntry[i]

\* a high-volatility decay of an open position that leaves it above the
\* current limit with its entry day kept
C10_Witness ==
    \E i \in Inst :
        /\ HighVolatilityCase(i)
        /\ prevPos[i] # 0
        /\ ret[i] > LimitNow(i)
        /\ position_entry_day[i] >= 0

\* the trend, the z-score and the RSI of instrument i in the latest call
TrendNow(i) == identify_trend(prc[i])
ZNow(i) == ZScore(prc[i], Len(prc[i]), LogReturns(prc[i]))
RsiNow(i) == RsiOfHistory(prc[i])

\* instrument i reached the trend logic in the latest call: price at or
\* above the floor, non-neutral trend, volatility not above the threshold,
\* holding period not expired
TrendLogicCase(i) ==
    /\ Sufficient
    /\ PriceNow(i) >= 10
    /\ TrendNow(i) # 0
    /\ ~HighVolatility(Len(prc[i]), LogReturns(prc[i]))
    /\ ~(prevEntry[i] >= 0 /\ Len(prc[i]) - prevEntry[i] >= 5)

OpenLongCase(i) ==
    /\ TrendLogicCase(i)
    /\ TrendNow(i) = 1
    /\ ZBelow(ZNow(i), -25)
    /\ RsiBelow(RsiNow(i), 20)
    /\ prevPos[i] = 0

OpenShortCase(i) ==
    /\ TrendLogicCase(i)
    /\ TrendNow(i) = -1
    /\ ZAbove(ZNow(i), 25)
    /\ RsiAbove(RsiNow(i), 80)
    /\ prevPos[i] = 0

Magnitude(x) == IF x >= 0 THEN x ELSE -x

\* C11: a position is opened only for a flat instrument; a long opened in an
\* uptrend (z < -2.5, RSI < 20) lies in [0, 0.4 posLimit], a short opened in
\* a downtrend (z > 2.5, RSI > 80) lies in [-0.4 posLimit, 0], and the entry
\* day becomes the current day index; no call increases the magnitude of an
\* open position
C11_OpensOnlyWhenFlat ==
    \A i \in Inst :
        /\ OpenLongCase(i) =>
              /\ 0 <= ret[i] /\ 10 * ret[i] <= 4 * LimitNow(i)
              /\ position_entry_day[i] = Len(prc[i])
              /\ global_day_counter = Len(prc[i])
        /\ OpenShortCase(i) =>
              /\ ret[i] <= 0 /\ -4 * LimitNow(i) <= 10 * ret[i]
              /\ position_entry_day[i] = Len(prc[i])
              /\ global_day_counter = Len(prc[i])
        /\ (Sufficient /\ path[i] = "entry") =>
              /\ prevPos[i] = 0
              /\ OpenLongCase(i) \/ OpenShortCase(i)
        /\ prevPos[i] # 0 =>
              /\ Magnitude(ret[i]) <= Magnitude(prevPos[i])
              /\ Magnitude(currentPos[i]) <= Magnitude(prevPos[i])

\* one call opens a long on one instrument and a short on another
C11_Witness ==
    \E i, j \in Inst :
        /\ OpenLongCase(i) /\ ret[i] > 0 /\ prevPos[i] = 0
        /\ OpenShortCase(j) /\ ret[j] < 0 /\ prevPos[j] = 0

\* C12: a long that reaches the trend logic in an uptrend with z > -0.8 or
\* RSI > 70 is returned as 0 with the entry day reset to -1; likewise a short
\* in a downtrend with z < 0.8 or RSI < 30
C12_ExitResets ==
    \A i \in Inst :
        /\ (/\ TrendLogicCase(i)
            /\ TrendNow(i) = 1
            /\ prevPos[i] > 0
            /\ (ZAbove(ZNow(i), -8) \/ RsiAbove(RsiNow(i), 70))) =>
                ret[i] = 0 /\ currentPos[i] = 0 /\ position_entry_day[i] = -1
        /\ (/\ TrendLogicCase(i)
            /\ TrendNow(i) = -1
            /\ prevPos[i] < 0
            /\ (ZBelow(ZNow(i), 8) \/ RsiBelow(RsiNow(i), 30))) =>
                ret[i] = 0 /\ currentPos[i] = 0 /\ position_entry_day[i] = -1

\* a long with a recorded entry day is closed on the z-score signal alone
\* (RSI not above 70) before its holding period ends
C12_Witness ==
    \E i \in Inst :
        /\ TrendLogicCase(i)
        /\ TrendNow(i) = 1
        /\ prevPos[i] > 0
        /\ prevEntry[i] >= 0
        /\ ZAbove(ZNow(i), -8)
        /\ ~RsiAbove(RsiNow(i), 70)
        /\ ret[i] = 0
        /\ position_entry_day[i] = -1

\* C13: in a call with sufficient history an instrument priced below
\* MIN_PRICE gets position 0 and entry day -1, whatever its previous
\* position, entry day, trend, volatility or age
C13_PriceFloorRejects ==
    \A i \in Inst :
        (Sufficient /\ PriceNow(i) < 10) =>
            /\ ret[i] = 0
            /\ currentPos[i] = 0
            /\ position_entry_day[i] = -1
            /\ path[i] = "floor"

\* an open position with an entry day is rejected by the price floor
C13_Witness ==
    \E i \in Inst :
        /\ Sufficient
        /\ PriceNow(i) < 10
        /\ prevPos[i] # 0
        /\ prevEntry[i] >= 0
        /\ ret[i] = 0
        /\ position_entry_day[i] = -1

\* C14: the downtrend logic mirrors the uptrend logic: for the same position
\* limit, (-trend, -z, 100 - RSI, -position) yields the negated new position
\* and the same entry-day update
C14_Mirror ==
    fnDone =>
        /\ fnOut.mirror.pos = -fnOut.plain.pos
        /\ fnOut.mirror.entry = fnOut.plain.entry

\* an uptrend entry of nonzero size whose mirror image is a short entry
C14_Witness ==
    /\ fnDone
    /\ fnArgs.trend = 1
    /\ fnArgs.cur_pos = 0
    /\ fnOut.plain.pos > 0
    /\ fnOut.plain.entry = fnArgs.day
    /\ fnOut.mirror.pos < 0

\* C15: identify_trend returns -1, 0 or 1: 0 for a series shorter than
\* long_period or with the short average within 2% of the long average,
\* +1 exactly when short > long * 1.02, -1 exactly when short < long * 0.98.
\* For the series given, short = new_price and
\* 100 long = 80 old_price + 20 new_price.
C15_TrendClassifies ==
    fnDone =>
        LET short100 == 100 * fnArgs.new_price
            long100 == 80 * fnArgs.old_price + 20 * fnArgs.new_price
            enough == fnArgs.length >= 100
        IN  /\ fnOut \in {-1, 0, 1}
            /\ fnOut = 1 <=> (enough /\ 100 * short100 > 102 * long100)
            /\ fnOut = -1 <=> (enough /\ 100 * short100 < 98 * long100)
            /\ fnOut = 0 <=> (\/ ~enough
                              \/ /\ 98 * long100 <= 100 * short100
                                 /\ 100 * short100 <= 102 * long100)

\* the short average lies exactly on the upper 2% boundary and the result
\* is 0
C15_Witness ==
    /\ fnDone
    /\ fnArgs.length >= 100
    /\ 100 * 100 * fnArgs.new_price
          = 102 * (80 * fnArgs.old_price + 20 * fnArgs.new_price)
    /\ fnOut = 0

\* C17: across a call with sufficient history an instrument that held a
\* nonzero position returns 0 or a position of the same sign and of no larger
\* magnitude; a position never flips sign without being flat in between
C17_NoFlipNoGrowth ==
    \A i \in Inst :
        /\ (Sufficient /\ prevPos[i] > 0) =>
              0 <= ret[i] /\ ret[i] <= prevPos[i]
        /\ (Sufficient /\ prevPos[i] < 0) =>
              prevPos[i] <= ret[i] /\ ret[i] <= 0
        /\ currentPos[i] * prevPos[i] >= 0

\* a short position returned smaller, but not flat, by a call that took the
\* neutral-trend path
C17_Witness ==
    \E i \in Inst :
        /\ Sufficient
        /\ NeutralCase(i)
        /\ prevPos[i] < -1
        /\ ret[i] < 0
        /\ ret[i] > prevPos[i]

\* C18: if currentPos[i] is nonzero before and after a call, the call leaves
\* position_entry_day[i] unchanged, and the age is the history length minus
\* the entry day
C18_ClockNotRestarted ==
    \A i \in Inst :
        (prevPos[i] # 0 /\ currentPos[i] # 0) =>
            /\ position_entry_day[i] = prevEntry[i]
            /\ global_day_counter - position_entry_day[i]
                  = Len(prc[i]) - prevEntry[i]

\* a position held through the hold path on a later day than its entry
C18_Witness ==
    \E i \in Inst :
        /\ TrendLogicCase(i)
        /\ prevPos[i] # 0
        /\ currentPos[i] = prevPos[i]
        /\ position_entry_day[i] = prevEntry[i]
        /\ Len(prc[i]) > prevEntry[i]

\* C16: with one more day per call every open position is eventually
\* returned as 0, because from age MAX_HOLDING_DAYS on every call flattens
\* it or strictly shrinks its magnitude.  Positions are followed that were
\* opened early enough for the modelled horizon: the holding period plus the
\* 8 further truncating decays that take the largest position to 0.
C16_EventuallyClosed ==
    /\ [](\A i \in Inst :
            (/\ Sufficient
             /\ prevPos[i] # 0
             /\ Len(prc[i]) - prevEntry[i] >= 5) =>
                Magnitude(ret[i]) < Magnitude(prevPos[i]))
    /\ \A i \in Inst :
          (/\ currentPos[i] # 0
           /\ position_entry_day[i] + 5 + 8 <= MaxDayLive)
              ~> (ret[i] = 0 /\ currentPos[i] = 0)

\* a position older than the holding period reaches 0 by truncating decay
C16_Witness ==
    \E i \in Inst :
        /\ HighVolatilityCase(i)
        /\ prevPos[i] # 0
        /\ Len(prc[i]) - prevEntry[i] > 5
        /\ ret[i] = 0
        /\ currentPos[i] = 0

====
